---- MODULE Spec2Model ----
(***************************************************************************)
(* The SourcePawn preprocessor core (crates/preprocessor): the Driver loop *)
(* of preprocess_input, the conditional-compilation state machine, the     *)
(* directive handlers, the Output Buffer and the inactive-range report.    *)
(*                                                                         *)
(* The preprocessor object (`self`) is a record s; every Rust method that  *)
(* takes `&mut self` is an operator from a record to the record after the  *)
(* call.  One action is one iteration of the Driver's `while let` loop.    *)
(* Texts are sequences of one-character strings, offsets are byte offsets. *)
(***************************************************************************)
EXTENDS Integers, Sequences, FiniteSets, TLC

VARIABLES
    lexer,                    \* SourcepawnLexer: position, symbols yielded, exhausted
    input,                    \* the source text the lexer has consumed so far
    macro_store,              \* MacroStore: map and disabled set
    expansion_stack,          \* Vec<Symbol>, top is the last element
    errors,                   \* PreprocessorErrors: three lists
    conditions_stack,         \* ConditionStack
    condition_offsets_stack,  \* ConditionOffsetStack: stack and skipped_ranges
    buffer,                   \* PreprocessorBuffer: contents, offset, source_map
    intrinsics_parse_status,  \* local of preprocess_input
    expanded_symbol,          \* local of preprocess_input
    status,                   \* "running", "ok" (result) or "error" (error_result)
    inactive_ranges,          \* PreprocessingResult.inactive_ranges
    log                       \* observations of the run, read only by the properties

vars == <<lexer, input, macro_store, expansion_stack, errors, conditions_stack,
          condition_offsets_stack, buffer, intrinsics_parse_status,
          expanded_symbol, status, inactive_ranges, log>>

(***************************************************************************)
(* Bounds of the model.                                                    *)
(***************************************************************************)
\* symbols the lexer yields to the Driver loop before Eof, conditional language
MaxSyms == 6
\* symbols the lexer yields to the Driver loop before Eof, line language
MaxLineSyms == 5
\* #if directives in one input
MaxIfs == 3
\* symbols the lexer yields to the Driver loop before Eof, macro language
MaxMacroSyms == 4
\* expansions of one macro at one invocation site that are followed
MaxSiteExpansions == 3
\* recorded skipped ranges in the coalescing check
MaxRanges == 3
\* largest offset of a recorded skipped range in the coalescing check
MaxPos == 4
\* symbols of an input without directives
MaxPlainSyms == 5
\* symbols of an input that may abort
MaxAbortSyms == 4
\* symbols of an input with #include lines
MaxIncludeSyms == 3

\* symbols of an input of conditions that may fail to evaluate
MaxEvalSyms == 4

\* bytes the Output Buffer holds before the last operation applied to it
MaxBufferLen == 3

\* symbols of an input with directives and macro names in suppressed text
MaxSkipSyms == 4

\* symbols of a #define line after the directive
MaxDefineLen == 4

(***************************************************************************)
(* Small helpers.                                                          *)
(***************************************************************************)
\* Option<T>: None, or Some(x) with x = Get(o)
None == <<>>

Some(x) == <<x>>

Get(o) == o[1]

Abs(n) == IF n < 0 THEN -n ELSE n

Max(a, b) == IF a >= b THEN a ELSE b

Last(q) == q[Len(q)]

Front(q) == SubSeq(q, 1, Len(q) - 1)

Reverse(q) == [i \in 1..Len(q) |-> q[Len(q) + 1 - i]]

Spaces(n) == [i \in 1..n |-> " "]

\* linebreak_count: the number of "\n" bytes of a text
linebreak_count(text) == Cardinality({i \in 1..Len(text) : text[i] = "\n"})

TextRange(start, end) == [start |-> start, end |-> end]

RangeIsEmpty(r) == r.start = r.end

RangeLen(r) == r.end - r.start

\* r lies inside q
Inside(r, q) == q.start <= r.start /\ r.end <= q.end

(***************************************************************************)
(* The lexer (an external collaborator): it yields Symbols               *)
(* {token_kind, text, range, delta}; a token is a symbol before it has a   *)
(* place in the source.                                                    *)
(***************************************************************************)
Tok(kind, text, delta) == [token_kind |-> kind, text |-> text, delta |-> delta]

Symbol(kind, text, range, delta) ==
    [token_kind |-> kind, text |-> text, range |-> range, delta |-> delta]

\* the bytes of the source a token stands for: its whitespace, then its text
SourceOf(tok) == Spaces(Abs(tok.delta)) \o tok.text

\* the symbol the lexer yields for tok when it stands at offset pos
Lex(tok, pos) ==
    Symbol(tok.token_kind, tok.text,
           TextRange(pos + Abs(tok.delta), pos + Abs(tok.delta) + Len(tok.text)),
           tok.delta)

\* the lexer after yielding tok
LexerAfter(lx, tok, counted) ==
    [pos |-> lx.pos + Len(SourceOf(tok)),
     n   |-> IF counted THEN lx.n + 1 ELSE lx.n,
     ifs |-> IF counted /\ tok.token_kind = "MIf" THEN lx.ifs + 1 ELSE lx.ifs,
     eof |-> tok.token_kind = "Eof"]

RECURSIVE LexAll(_, _)
\* the symbols the lexer yields for a run of tokens starting at offset pos
LexAll(toks, pos) ==
    IF toks = <<>> THEN <<>>
    ELSE <<Lex(toks[1], pos)>> \o LexAll(Tail(toks), pos + Len(SourceOf(toks[1])))

RECURSIVE SourceOfAll(_)
SourceOfAll(toks) ==
    IF toks = <<>> THEN <<>> ELSE SourceOf(toks[1]) \o SourceOfAll(Tail(toks))

IsDirectiveKind(kind) ==
    kind \in {"MDefine", "MUndef", "MIf", "MElseif", "MElse", "MEndif",
              "MInclude", "MTryinclude", "MPragma"}

TEof == Tok("Eof", <<>>, 0)
TNewline == Tok("Newline", <<"\n">>, 0)
TIdent(c) == Tok("Identifier", <<c>>, 0)
TIdentWs(c) == Tok("Identifier", <<c>>, 1)
TIf == Tok("MIf", <<"#", "i", "f">>, 0)
TElseif == Tok("MElseif", <<"#", "e", "l", "s", "e", "i", "f">>, 0)
TElse == Tok("MElse", <<"#", "e", "l", "s", "e">>, 0)
TEndif == Tok("MEndif", <<"#", "e", "n", "d", "i", "f">>, 0)
TDefine == Tok("MDefine", <<"#", "d", "e", "f", "i", "n", "e">>, 0)
TUndef == Tok("MUndef", <<"#", "u", "n", "d", "e", "f">>, 0)
TInt(c) == Tok("IntegerLiteral", <<c>>, 0)
TIntWs(c) == Tok("IntegerLiteral", <<c>>, 1)
TLParen == Tok("LParen", <<"(">>, 0)
TRParen == Tok("RParen", <<")">>, 0)
TComma == Tok("Comma", <<",">>, 0)
TPercent == Tok("Percent", <<"%">>, 0)
TLineContinuation == Tok("LineContinuation", <<"\\", "\n">>, 1)
TUsing == Tok("Using", <<"u", "s", "i", "n", "g">>, 1)
TIntrinsics ==
    Tok("Intrinsics",
        <<"_", "_", "i", "n", "t", "r", "i", "n", "s", "i", "c", "s", "_", "_">>, 1)
TDot == Tok("Dot", <<".">>, 0)
TSemicolon == Tok("Semicolon", <<";">>, 0)
THandle == Tok("Identifier", <<"H", "a", "n", "d", "l", "e">>, 0)
TUnknown == Tok("Unknown", <<"@">>, 0)
\* the lexer yields an #include line as one symbol
IncChevron ==
    Tok("MInclude", <<"#", "i", "n", "c", "l", "u", "d", "e", " ", "<", "a", ">">>, 0)
IncBoth ==
    Tok("MInclude",
        <<"#", "i", "n", "c", "l", "u", "d", "e", " ", "<", "a", ">", "\"", "b", "\"">>, 0)
IncNoPath == Tok("MInclude", <<"#", "i", "n", "c", "l", "u", "d", "e", " ", "a">>, 0)
TryQuote ==
    Tok("MTryinclude",
        <<"#", "t", "r", "y", "i", "n", "c", "l", "u", "d", "e", " ", "\"", "b", "\"">>, 0)

(***************************************************************************)
(* Source Map (offset.rs): the pairs of emitted symbols and the entries of *)
(* completed macro expansions.                                             *)
(***************************************************************************)
push_new_range(sm, original, output) ==
    [sm EXCEPT !.ranges = Append(@, [original |-> original, output |-> output])]

push_expanded_symbol(sm, range, start_offset, end_offset, macro_) ==
    [sm EXCEPT !.expanded = Append(@, [range |-> range, start |-> start_offset,
                                       end |-> end_offset, macro |-> macro_])]

(***************************************************************************)
(* Output Buffer (buffer.rs).                                              *)
(***************************************************************************)
\* a variant that advances the offset by the signed delta
PushWsSigned(b, symbol) ==
    [b EXCEPT !.offset = @ + symbol.delta,
              !.contents = @ \o Spaces(Abs(symbol.delta))]

push_ws(b, symbol) ==
    [b EXCEPT !.offset = @ + Abs(symbol.delta),
              !.contents = @ \o Spaces(Abs(symbol.delta))]

push_new_line(b) ==
    [b EXCEPT !.offset = @ + 1, !.contents = Append(@, "\n")]

RECURSIVE push_new_lines(_, _)
push_new_lines(b, count) ==
    IF count = 0 THEN b ELSE push_new_lines(push_new_line(b), count - 1)

\* a variant that records the pair after the offset has advanced over the text
PushSymbolMapsAfterText(b, symbol) ==
    LET after == b.offset + Len(symbol.text)
        mapped == IF ~RangeIsEmpty(symbol.range)
                  THEN push_new_range(b.source_map, symbol.range,
                                      TextRange(after, after + RangeLen(symbol.range)))
                  ELSE b.source_map
    IN  [contents   |-> b.contents \o symbol.text,
         offset     |-> after,
         source_map |-> mapped]

push_symbol_no_delta(b, symbol) ==
    LET mapped == IF ~RangeIsEmpty(symbol.range)
                  THEN push_new_range(b.source_map, symbol.range,
                                      TextRange(b.offset, b.offset + RangeLen(symbol.range)))
                  ELSE b.source_map
    IN  [contents   |-> b.contents \o symbol.text,
         offset     |-> b.offset + Len(symbol.text),
         source_map |-> mapped]

push_symbol(b, symbol) ==
    IF symbol.token_kind = "Eof" THEN push_new_line(b)
    ELSE push_symbol_no_delta(push_ws(b, symbol), symbol)

push_str(b, string) ==
    [b EXCEPT !.offset = @ + Len(string), !.contents = @ \o string]

(***************************************************************************)
(* Condition Stack and Condition-Offset Stack (conditions.rs).             *)
(***************************************************************************)
top_is_activated_or_not_activated(cs) ==
    cs # <<>> /\ Last(cs) \in {"NotActivated", "Activated"}

offsets_push(cos, offset) == [cos EXCEPT !.stack = Append(@, offset)]

offsets_pop(cos) == IF cos.stack = <<>> THEN cos ELSE [cos EXCEPT !.stack = Front(@)]

\* "close range": the pending start offset, paired with the directive's range-end;
\* with no pending start offset there is nothing to pair
pop_and_push_skipped_range(cos, end) ==
    IF cos.stack = <<>> THEN cos
    ELSE [stack |-> Front(cos.stack),
          skipped_ranges |-> Append(cos.skipped_ranges, TextRange(Last(cos.stack), end))]

RECURSIVE InsertByStart(_, _)
InsertByStart(r, sorted) ==
    IF sorted = <<>> THEN <<r>>
    ELSE IF r.start < sorted[1].start THEN <<r>> \o sorted
    ELSE <<sorted[1]>> \o InsertByStart(r, Tail(sorted))

RECURSIVE sort_skipped_ranges(_)
\* a stable sort by start offset
sort_skipped_ranges(ranges) ==
    IF ranges = <<>> THEN <<>>
    ELSE InsertByStart(Last(ranges), sort_skipped_ranges(Front(ranges)))

(***************************************************************************)
(* get_inactive_ranges (lib.rs): sort, then fold the ranges into a list in *)
(* which a range that starts at or before the end of the last one merges.  *)
(***************************************************************************)
MergeStepTouchingKept(ranges, range) ==
    LET last_range == Last(ranges)
    IN  IF last_range.end > range.start
        THEN Append(Front(ranges),
                    TextRange(last_range.start, Max(last_range.end, range.end)))
        ELSE Append(ranges, range)

\* one turn of the for loop: pop the last range, merge or push both
MergeStep(ranges, range) ==
    LET last_range == Last(ranges)
    IN  IF last_range.end >= range.start
        THEN Append(Front(ranges),
                    TextRange(last_range.start, Max(last_range.end, range.end)))
        ELSE Append(ranges, range)

RECURSIVE MergeAll(_, _)
MergeAll(ranges, rest) ==
    IF rest = <<>> THEN ranges
    ELSE MergeAll(MergeStep(ranges, rest[1]), Tail(rest))

get_inactive_ranges(skipped_ranges) ==
    IF skipped_ranges = <<>> THEN <<>>
    ELSE LET sorted == sort_skipped_ranges(skipped_ranges)
         IN  MergeAll(<<sorted[1]>>, sorted)

(***************************************************************************)
(* Macro Store (macros.rs): name -> Macro, and the disabled set.           *)
(***************************************************************************)
Macro(body, params, nb_params, name_len) ==
    [body |-> body, params |-> params, nb_params |-> nb_params, name_len |-> name_len]

store_has(ms, name) == name \in DOMAIN ms.map

is_macro_disabled(ms, name) == name \in ms.disabled

enable_macro(ms, name) == [ms EXCEPT !.disabled = @ \ {name}]

disable_macro(ms, name) == [ms EXCEPT !.disabled = @ \cup {name}]

insert_macro(ms, name, macro_) ==
    [ms EXCEPT !.map = [k \in (DOMAIN @) \cup {name} |->
                            IF k = name THEN macro_ ELSE @[k]]]

remove_macro(ms, name) ==
    [ms EXCEPT !.map = [k \in (DOMAIN @) \ {name} |-> @[k]]]

(***************************************************************************)
(* The preprocessor object.                                                *)
(***************************************************************************)
Self ==
    [lexer |-> lexer, input |-> input, macro_store |-> macro_store,
     expansion_stack |-> expansion_stack, errors |-> errors,
     conditions_stack |-> conditions_stack,
     condition_offsets_stack |-> condition_offsets_stack, buffer |-> buffer,
     intrinsics_parse_status |-> intrinsics_parse_status,
     expanded_symbol |-> expanded_symbol, status |-> status,
     inactive_ranges |-> inactive_ranges, log |-> log]

Becomes(s) ==
    /\ lexer' = s.lexer
    /\ input' = s.input
    /\ macro_store' = s.macro_store
    /\ expansion_stack' = s.expansion_stack
    /\ errors' = s.errors
    /\ conditions_stack' = s.conditions_stack
    /\ condition_offsets_stack' = s.condition_offsets_stack
    /\ buffer' = s.buffer
    /\ intrinsics_parse_status' = s.intrinsics_parse_status
    /\ expanded_symbol' = s.expanded_symbol
    /\ status' = s.status
    /\ inactive_ranges' = s.inactive_ranges
    /\ log' = s.log

\* SourcepawnPreprocessor::new, then include_sourcemod with a host that adds nothing
New ==
    [lexer |-> [pos |-> 0, n |-> 0, ifs |-> 0, eof |-> FALSE],
     input |-> <<>>,
     macro_store |-> [map |-> <<>>, disabled |-> {}],
     expansion_stack |-> <<>>,
     errors |-> [macro_not_found_errors |-> <<>>, unresolved_include_errors |-> <<>>,
                 evaluation_errors |-> <<>>],
     conditions_stack |-> <<>>,
     condition_offsets_stack |-> [stack |-> <<>>, skipped_ranges |-> <<>>],
     buffer |-> [contents |-> <<>>, offset |-> 0,
                 source_map |-> [ranges |-> <<>>, expanded |-> <<>>]],
     intrinsics_parse_status |-> "None",
     expanded_symbol |-> None,
     status |-> "running",
     inactive_ranges |-> <<>>,
     log |-> [suppressed |-> {}, chain |-> <<>>, site |-> None, site_count |-> <<>>,
              expected |-> <<>>, last_directive |-> <<>>, ever_defined |-> {},
              idents |-> {}, recorded |-> <<>>,
              step |-> None, open |-> 0, calls |-> <<>>, trail |-> <<>>,
              evaluated |-> None, pushed |-> None, scanned |-> None]]

\* consuming tokens from the lexer
Consume(s, tok, counted) ==
    [s EXCEPT !.lexer = LexerAfter(@, tok, counted), !.input = @ \o SourceOf(tok)]

RECURSIVE ConsumeAll(_, _)
ConsumeAll(s, toks) ==
    IF toks = <<>> THEN s ELSE ConsumeAll(Consume(s, toks[1], FALSE), Tail(toks))

\* result() and error_result(): the same PreprocessingResult, built the same way
Finished(s, how) ==
    [s EXCEPT !.status = how,
              !.log.recorded = s.condition_offsets_stack.skipped_ranges,
              !.inactive_ranges =
                  get_inactive_ranges(s.condition_offsets_stack.skipped_ranges),
              !.condition_offsets_stack.skipped_ranges = sort_skipped_ranges(@)]

result(s) == Finished(s, "ok")

ErrorResultWithoutRanges(s) ==
    [Finished(s, "error") EXCEPT !.inactive_ranges = <<>>]

error_result(s) == Finished(s, "error")

(***************************************************************************)
(* The head of the Driver loop (lib.rs 198-211): the next symbol comes     *)
(* from the Expansion Stack when it is not empty, else from the lexer,     *)
(* and a pending expansion is recorded before the lexer is asked.          *)
(***************************************************************************)
FlushExpanded(s) ==
    IF s.expanded_symbol = None
    THEN [s EXCEPT !.log.site = None, !.log.site_count = <<>>]
    ELSE [s EXCEPT
            !.buffer.source_map =
                push_expanded_symbol(@, Get(s.expanded_symbol).symbol.range,
                                     Get(s.expanded_symbol).start_offset,
                                     s.buffer.offset, Get(s.expanded_symbol).macro),
            !.expanded_symbol = None,
            !.log.expected =
                IF s.log.site = None THEN @
                ELSE Append(@, [range |-> Get(s.log.site).range,
                                start |-> Get(s.log.site).start_offset,
                                end |-> s.buffer.offset,
                                macro |-> Get(s.log.site).macro]),
            !.log.site = None,
            !.log.site_count = <<>>]

\* the tokens the lexer may yield next in the language L = [toks, max]
Toks(s, L) ==
    IF s.lexer.n >= L.max THEN {TEof}
    ELSE {t \in L.toks : t.token_kind = "MIf" => s.lexer.ifs < MaxIfs}

\* the observation of a drawn symbol: the symbol, the object as its handler
\* finds it, and the nesting of the #if and #endif drawn so far
Drawn(s, symbol, from_lexer) ==
    [s EXCEPT
        !.log.step = Some([symbol |-> symbol, from_lexer |-> from_lexer,
                           before |-> [buffer |-> s.buffer, errors |-> s.errors,
                                       macro_store |-> s.macro_store,
                                       conditions_stack |-> s.conditions_stack,
                                       condition_offsets_stack |->
                                           s.condition_offsets_stack,
                                       intrinsics_parse_status |->
                                           s.intrinsics_parse_status,
                                       lexer |-> s.lexer]]),
        !.log.trail = Append(@, [token_kind |-> symbol.token_kind,
                                 text |-> symbol.text]),
        !.log.open = IF symbol.token_kind = "MIf" THEN @ + 1
                     ELSE IF symbol.token_kind = "MEndif" THEN Max(0, @ - 1)
                     ELSE @]

Draws(s, L) ==
    IF s.expansion_stack # <<>>
    THEN {[symbol |-> Last(s.expansion_stack), from_lexer |-> FALSE,
           s |-> Drawn([s EXCEPT !.expansion_stack = Front(@)],
                       Last(s.expansion_stack), FALSE)]}
    ELSE IF s.lexer.eof THEN {}
    ELSE {[symbol |-> Lex(t, s.lexer.pos), from_lexer |-> TRUE,
           s |-> Drawn(Consume(FlushExpanded(s), t, TRUE),
                       Lex(t, s.lexer.pos), TRUE)] : t \in Toks(s, L)}

(***************************************************************************)
(* Conditional State Machine (lib.rs 326-426, 605-621).                    *)
(***************************************************************************)
\* the conditions a directive may carry: the symbols the lexer yields while
\* in_preprocessor() holds, and what the evaluator makes of them
CondTrue == [symbols |-> <<TIntWs("1")>>, value |-> "true"]

CondFalse == [symbols |-> <<TLineContinuation, TIntWs("0")>>, value |-> "false"]

CondError == [symbols |-> <<Tok("LParen", <<"(">>, 1)>>, value |-> "error"]

NoCond == [symbols |-> <<>>, value |-> "none"]

line_continuation_count(cond) == linebreak_count(SourceOfAll(cond.symbols))

\* the observation of a chain: how many of its branches have been Active
Opened(s) ==
    [s EXCEPT !.log.chain =
        Append(@, [active |-> IF Last(s.conditions_stack) = "Active" THEN 1 ELSE 0,
                   branches |-> 1,
                   under |-> top_is_activated_or_not_activated(Front(s.conditions_stack))])]

Switched(s) ==
    [s EXCEPT !.log.chain[Len(s.conditions_stack)] =
        [@ EXCEPT !.active = @ + (IF Last(s.conditions_stack) = "Active" THEN 1 ELSE 0),
                  !.branches = @ + 1]]

Closed(s) == [s EXCEPT !.log.chain = Front(@)]

\* a variant in which a condition that fails to evaluate counts as true
IfErrorActivates(s, symbol, cond) ==
    LET s1 == [s EXCEPT !.condition_offsets_stack = offsets_push(@, symbol.range.start),
                        !.log.evaluated = Some([drawn |-> Len(s.log.trail),
                                                value |-> cond.value])]
        s2 == ConsumeAll(s1, cond.symbols)
        s3 == IF cond.value = "error"
              THEN [s2 EXCEPT !.errors.evaluation_errors = Append(@, cond.symbols)]
              ELSE s2
        if_condition_eval == cond.value # "false"
        s4 == [s3 EXCEPT !.conditions_stack =
                  Append(@, IF if_condition_eval THEN "Active" ELSE "NotActivated")]
    IN  [s4 EXCEPT !.buffer = push_new_lines(@, line_continuation_count(cond))]

process_if_directive(s, symbol, cond) ==
    LET s1 == [s EXCEPT !.condition_offsets_stack = offsets_push(@, symbol.range.start),
                        !.log.evaluated = Some([drawn |-> Len(s.log.trail),
                                                value |-> cond.value])]
        s2 == ConsumeAll(s1, cond.symbols)
        s3 == IF cond.value = "error"
              THEN [s2 EXCEPT !.errors.evaluation_errors = Append(@, cond.symbols)]
              ELSE s2
        if_condition_eval == cond.value = "true"
        s4 == [s3 EXCEPT !.conditions_stack =
                  Append(@, IF if_condition_eval THEN "Active" ELSE "NotActivated")]
    IN  [s4 EXCEPT !.buffer = push_new_lines(@, line_continuation_count(cond))]

ElseFromActivatedEmits(s, symbol) ==
    LET top == Last(s.conditions_stack)
        popped == [s EXCEPT !.conditions_stack = Front(@)]
    IN  IF top = "Active"
        THEN [popped EXCEPT
                !.condition_offsets_stack = offsets_push(offsets_pop(@), symbol.range.start),
                !.conditions_stack = Append(@, "Activated")]
        ELSE [popped EXCEPT
                !.condition_offsets_stack = pop_and_push_skipped_range(@, symbol.range.end),
                !.conditions_stack = Append(@, "Active")]

\* the three arms of process_else_directive once the pop has succeeded
else_arms(s, symbol) ==
    LET top == Last(s.conditions_stack)
        popped == [s EXCEPT !.conditions_stack = Front(@)]
    IN  CASE top = "NotActivated" ->
                [popped EXCEPT
                    !.condition_offsets_stack =
                        pop_and_push_skipped_range(@, symbol.range.end),
                    !.conditions_stack = Append(@, "Active")]
          [] top = "Active" ->
                [popped EXCEPT
                    !.condition_offsets_stack =
                        offsets_push(offsets_pop(@), symbol.range.start),
                    !.conditions_stack = Append(@, "Activated")]
          [] top = "Activated" ->
                [popped EXCEPT
                    !.condition_offsets_stack =
                        offsets_push(pop_and_push_skipped_range(@, symbol.range.end),
                                     symbol.range.start),
                    !.conditions_stack = Append(@, "Activated")]

\* Err when the Condition Stack is empty ("Expect if before else clause.")
process_else_directive(s, symbol) ==
    IF s.conditions_stack = <<>> THEN [ok |-> FALSE, s |-> s]
    ELSE [ok |-> TRUE, s |-> Switched(else_arms(s, symbol))]

elseif_arms(s, symbol, cond) ==
    LET top == Last(s.conditions_stack)
        popped == [s EXCEPT !.conditions_stack = Front(@)]
    IN  CASE top = "NotActivated" ->
                process_if_directive(
                    [popped EXCEPT
                        !.condition_offsets_stack =
                            pop_and_push_skipped_range(@, symbol.range.end)],
                    symbol, cond)
          [] top = "Active" ->
                [popped EXCEPT
                    !.condition_offsets_stack =
                        offsets_push(offsets_pop(@), symbol.range.start),
                    !.conditions_stack = Append(@, "Activated")]
          [] top = "Activated" ->
                [popped EXCEPT
                    !.condition_offsets_stack =
                        offsets_push(pop_and_push_skipped_range(@, symbol.range.end),
                                     symbol.range.start),
                    !.conditions_stack = Append(@, "Activated")]

\* Err when the Condition Stack is empty ("Expect if before elseif clause.")
process_elseif_directive(s, symbol, cond) ==
    IF s.conditions_stack = <<>> THEN [ok |-> FALSE, s |-> s]
    ELSE [ok |-> TRUE, s |-> Switched(elseif_arms(s, symbol, cond))]

\* lib.rs 414-416, commented out: "Expect if before endif clause"
EndifExpectsIf(s, symbol) ==
    IF s.conditions_stack = <<>> THEN error_result(s)
    ELSE LET top == Last(s.conditions_stack)
             popped == Closed([s EXCEPT !.conditions_stack = Front(@)])
         IN  IF top # "Active"
             THEN [popped EXCEPT !.condition_offsets_stack =
                                    pop_and_push_skipped_range(@, symbol.range.end)]
             ELSE popped

process_endif_directive(s, symbol) ==
    IF s.conditions_stack = <<>> THEN s
    ELSE LET top == Last(s.conditions_stack)
             popped == Closed([s EXCEPT !.conditions_stack = Front(@)])
         IN  IF top # "Active"
             THEN [popped EXCEPT !.condition_offsets_stack =
                                    pop_and_push_skipped_range(@, symbol.range.end)]
             ELSE popped

NestedIfEvaluated(s, symbol) ==
    Opened([s EXCEPT !.conditions_stack = Append(@, "NotActivated")])

\* a variant in which an #if met in suppressed text opens nothing
NestedIfIgnored(s, symbol) == s

\* process_negative_condition, MIf arm: the nested #if is not evaluated
nested_if(s, symbol) ==
    Opened([s EXCEPT !.conditions_stack = Append(@, "Activated")])

\* a variant of the Skip handler that still emits the newline of an Eof symbol
SkipEmitsEof(s, symbol, cond) ==
    LET seen == [s EXCEPT !.log.suppressed = @ \cup {symbol.range}]
    IN  CASE symbol.token_kind = "MIf" -> nested_if(seen, symbol)
          [] symbol.token_kind = "MEndif" -> process_endif_directive(seen, symbol)
          [] symbol.token_kind = "MElse" -> process_else_directive(seen, symbol).s
          [] symbol.token_kind = "MElseif" ->
                process_elseif_directive(seen, symbol, cond).s
          [] symbol.token_kind = "Eof" ->
                [seen EXCEPT !.buffer = push_symbol(@, symbol)]
          [] OTHER -> seen

\* the Skip handler; it never emits and, with a non-empty stack, never fails
process_negative_condition(s, symbol, cond) ==
    LET seen == [s EXCEPT !.log.suppressed = @ \cup {symbol.range}]
    IN  CASE symbol.token_kind = "MIf" -> nested_if(seen, symbol)
          [] symbol.token_kind = "MEndif" -> process_endif_directive(seen, symbol)
          [] symbol.token_kind = "MElse" -> process_else_directive(seen, symbol).s
          [] symbol.token_kind = "MElseif" ->
                process_elseif_directive(seen, symbol, cond).s
          [] OTHER -> seen

\* the conditions an #elseif may scan: only the NotActivated arm asks the lexer
CondsFor(s, symbol, L) ==
    IF symbol.token_kind = "MElseif" /\ s.conditions_stack # <<>>
       /\ Last(s.conditions_stack) = "NotActivated"
    THEN L.conds ELSE {NoCond}

(***************************************************************************)
(* #define (lib.rs 430-514): the three-state scanner over the symbols the  *)
(* lexer yields while in_preprocessor() holds.                             *)
(***************************************************************************)
BodySymbol(symbol) ==
    [token_kind |-> symbol.token_kind, text |-> symbol.text, delta |-> symbol.delta]

DigitVal(c) ==
    CASE c = "0" -> 0 [] c = "1" -> 1 [] c = "2" -> 2 [] c = "3" -> 3 [] c = "4" -> 4
      [] c = "5" -> 5 [] c = "6" -> 6 [] c = "7" -> 7 [] c = "8" -> 8 [] c = "9" -> 9

RECURSIVE to_int(_)
to_int(text) ==
    IF text = <<>> THEN 0 ELSE to_int(Front(text)) * 10 + DigitVal(Last(text))

\* the scanner's locals before the first symbol
ScanStart(b) ==
    [state |-> "Start", macro_name |-> <<>>, body |-> <<>>,
     args |-> [i \in 1..10 |-> -1], found_params |-> FALSE, args_idx |-> 0,
     buffer |-> b, taken |-> 0, failed |-> FALSE, stopped |-> FALSE]

\* one turn of the while loop on one symbol
ScanStep(sc, symbol) ==
    LET shown == IF symbol.token_kind \notin {"Newline", "Eof"}
                 THEN [sc EXCEPT !.buffer = push_symbol(@, symbol), !.taken = @ + 1]
                 ELSE [sc EXCEPT !.taken = @ + 1]
        to_body == [shown EXCEPT !.body = Append(@, BodySymbol(symbol)), !.state = "Body"]
    IN  IF symbol.token_kind = "Eof"
        THEN [sc EXCEPT !.taken = @ + 1, !.stopped = TRUE]
        ELSE CASE sc.state = "Start" ->
                    IF sc.macro_name = <<>> /\ symbol.token_kind = "Identifier"
                    THEN [shown EXCEPT !.macro_name = symbol.text]
                    ELSE IF symbol.delta = 0 /\ symbol.token_kind = "LParen"
                    THEN [shown EXCEPT !.state = "Params"]
                    ELSE to_body
               [] sc.state = "Params" ->
                    IF symbol.delta > 0 THEN to_body
                    ELSE CASE symbol.token_kind = "RParen" ->
                                [shown EXCEPT !.state = "Body"]
                           [] symbol.token_kind = "IntegerLiteral" ->
                                IF to_int(symbol.text) >= 10
                                THEN [shown EXCEPT !.found_params = TRUE, !.failed = TRUE]
                                ELSE [shown EXCEPT
                                        !.found_params = TRUE,
                                        !.args[to_int(symbol.text) + 1] = sc.args_idx]
                           [] symbol.token_kind = "Comma" ->
                                [shown EXCEPT !.args_idx = @ + 1]
                           [] symbol.token_kind = "Percent" -> shown
                           [] OTHER -> [shown EXCEPT !.failed = TRUE]
               [] sc.state = "Body" -> to_body

RECURSIVE Scan(_, _)
Scan(sc, symbols) ==
    IF symbols = <<>> \/ sc.failed \/ sc.stopped THEN sc
    ELSE Scan(ScanStep(sc, symbols[1]), Tail(symbols))

\* lines a #define may be followed by
DefineSelf == <<TIdentWs("F"), TIdentWs("F")>>
DefineSelfTwice == <<TIdentWs("F"), TIdentWs("F"), TIdentWs("F")>>
DefineFG == <<TIdentWs("F"), TIdentWs("G")>>
DefineGF == <<TIdentWs("G"), TIdentWs("F")>>
DefineGx == <<TIdentWs("G"), TIdentWs("x")>>
DefineFxG == <<TIdentWs("F"), TIdentWs("x"), TIdentWs("G")>>
DefineGEof == <<TIdentWs("G"), TEof>>
\* a body that holds a directive: its expansion switches to suppressed text
DefineGElse ==
    <<TIdentWs("G"), Tok("MElse", <<"#", "e", "l", "s", "e">>, 1), TIdentWs("x")>>
DefineM ==
    <<TIdentWs("M"), TLParen, TPercent, TInt("1"), TRParen,
      TIdentWs("x"), TPercent, TInt("1")>>
\* an identifier among the params, and a param index out of range
DefineBadParam == <<TIdentWs("M"), TLParen, TIdent("y"), TRParen, TIdentWs("x")>>
DefineBadIndex ==
    <<TIdentWs("M"), TLParen, TPercent, Tok("IntegerLiteral", <<"1", "0">>, 0),
      TRParen>>

Noted(s, name, what) ==
    [s EXCEPT !.log.last_directive =
                [k \in (DOMAIN @) \cup {name} |-> IF k = name THEN what ELSE @[k]],
              !.log.ever_defined = IF what = "define" THEN @ \cup {name} ELSE @]

process_define(s, symbol, tail) ==
    LET symbols == LexAll(tail, s.lexer.pos)
        sc == Scan(ScanStart(push_symbol(s.buffer, symbol)), symbols)
        s1 == [ConsumeAll(s, SubSeq(tail, 1, sc.taken)) EXCEPT
                !.log.scanned = Some([tail |-> tail, drawn |-> Len(s.log.trail)])]
        params == IF sc.found_params THEN Some(sc.args) ELSE None
        nb_params == IF sc.found_params
                     THEN Cardinality({i \in 1..10 : sc.args[i] # -1}) ELSE 0
        macro_ == Macro(sc.body, params, nb_params, Len(sc.macro_name))
    IN  IF sc.failed
        THEN [ok |-> FALSE, s |-> [s1 EXCEPT !.buffer = sc.buffer]]
        ELSE [ok |-> TRUE,
              s |-> Noted([s1 EXCEPT
                            !.buffer = push_new_line(sc.buffer),
                            !.macro_store = insert_macro(@, sc.macro_name, macro_)],
                          sc.macro_name, "define")]

(***************************************************************************)
(* #undef (lib.rs 515-531): the first identifier of the directive is       *)
(* removed from the Macro Store and the scan stops.                        *)
(***************************************************************************)
UndefRemovesNothing(ms, symbol) == ms

\* lib.rs 524: self.macro_store.remove_macro(&symbol.text())
undef_remove(ms, symbol) == remove_macro(ms, symbol.text)

RECURSIVE undef_scan(_, _, _)
undef_scan(s, symbols, tail) ==
    IF symbols = <<>> THEN s
    ELSE LET symbol == symbols[1]
             s1 == Consume(s, tail[1], FALSE)
             s2 == [s1 EXCEPT !.buffer = push_ws(@, symbol)]
             s3 == IF symbol.token_kind \notin {"Newline", "Eof"}
                   THEN [s2 EXCEPT !.buffer = push_symbol_no_delta(@, symbol)]
                   ELSE s2
         IN  IF symbol.token_kind = "Identifier"
             THEN Noted([s3 EXCEPT !.macro_store = undef_remove(@, symbol)],
                        symbol.text, "undef")
             ELSE undef_scan(s3, Tail(symbols), Tail(tail))

process_undef(s, symbol, tail) ==
    undef_scan([s EXCEPT !.buffer = push_symbol(@, symbol)],
               LexAll(tail, s.lexer.pos), tail)

(***************************************************************************)
(* #include and #tryinclude (lib.rs 544-603) and the pre-load of the root  *)
(* library (lib.rs 185-192).  The include callback belongs to the host:    *)
(* whether it succeeds, and the macros it adds, are its choice.            *)
(***************************************************************************)
MinOf(S) == CHOOSE i \in S : \A j \in S : i <= j

\* RE_CHEVRON and RE_QUOTE: the first shortest non-empty text between the marks
Capture(text, open, close) ==
    LET starts == {i \in DOMAIN text :
                      text[i] = open /\ \E j \in DOMAIN text : j > i + 1 /\ text[j] = close}
    IN  IF starts = {} THEN None
        ELSE LET i == MinOf(starts)
                 j == MinOf({k \in DOMAIN text : k > i + 1 /\ text[k] = close})
             IN  Some([path |-> SubSeq(text, i + 1, j - 1), start |-> i, end |-> j - 1])

RE_CHEVRON(text) == Capture(text, "<", ">")

RE_QUOTE(text) == Capture(text, "\"", "\"")

\* a macro the host may add: S, object-like, with the body x
HostMacros ==
    [k \in {<<"S">>} |-> Macro(<<BodySymbol(Lex(TIdentWs("x"), 0))>>, None, 0, 1)]

\* what an invocation of the include callback may do
CallbackResults ==
    {[ok |-> TRUE, adds |-> <<>>], [ok |-> TRUE, adds |-> HostMacros],
     [ok |-> FALSE, adds |-> <<>>]}

\* (self.include_file)(self.macro_store.map_mut(), path, self.file_id, is_quoted)
include_file(s, path, is_quoted, r) ==
    [s EXCEPT
        !.macro_store.map =
            [k \in (DOMAIN @) \cup (DOMAIN r.adds) |->
                IF k \in DOMAIN r.adds THEN r.adds[k] ELSE @[k]],
        !.log.calls = Append(@, [path |-> path, is_quoted |-> is_quoted, ok |-> r.ok,
                                 drawn |-> Len(s.log.trail), pos |-> s.lexer.pos,
                                 offset |-> s.buffer.offset])]

SourcemodFailureRecorded(s, r) ==
    LET called == include_file(s, <<"s", "o", "u", "r", "c", "e", "m", "o", "d">>, FALSE, r)
    IN  IF r.ok THEN called
        ELSE [called EXCEPT !.errors.unresolved_include_errors =
                                Append(@, [path |-> <<"s", "o", "u", "r", "c", "e", "m", "o", "d">>,
                                           range |-> TextRange(0, 0)])]

\* lib.rs 185-192
include_sourcemod(s, r) ==
    include_file(s, <<"s", "o", "u", "r", "c", "e", "m", "o", "d">>, FALSE, r)

\* a variant in which #tryinclude records its failures as #include does
TryincludeFailureRecorded(s, symbol, is_try, m, is_quoted, r) ==
    IF m = None THEN s
    ELSE LET called == include_file(s, Get(m).path, is_quoted, r)
         IN  IF r.ok THEN called
             ELSE [called EXCEPT
                     !.errors.unresolved_include_errors =
                         Append(@, [path |-> Get(m).path,
                                    range |-> TextRange(symbol.range.start + Get(m).start,
                                                        symbol.range.start + Get(m).end)])]

\* lib.rs 548-573 and 574-599: one path form of the directive
include_path(s, symbol, is_try, m, is_quoted, r) ==
    IF m = None THEN s
    ELSE LET called == include_file(s, Get(m).path, is_quoted, r)
         IN  IF r.ok \/ is_try THEN called
             ELSE [called EXCEPT
                     !.errors.unresolved_include_errors =
                         Append(@, [path |-> Get(m).path,
                                    range |-> TextRange(symbol.range.start + Get(m).start,
                                                        symbol.range.start + Get(m).end)])]

\* lib.rs 544-603
process_include_directive(s, symbol, is_try, r1, r2) ==
    LET line_delta == linebreak_count(symbol.text)
        s1 == include_path(s, symbol, is_try, RE_CHEVRON(symbol.text), FALSE, r1)
        s2 == include_path(s1, symbol, is_try, RE_QUOTE(symbol.text), TRUE, r2)
    IN  [s2 EXCEPT !.buffer = push_new_lines(push_symbol(@, symbol), line_delta)]

(***************************************************************************)
(* Macro Expander (macros.rs): one expansion step.  The macro is disabled, *)
(* its body is pushed in reverse onto the Expansion Stack as synthetic     *)
(* symbols (empty range), the first one inheriting the invocation's delta. *)
(* A function-like macro first consumes its argument list from the lexer.  *)
(***************************************************************************)
\* an argument list an invocation of a function-like macro may be followed by
CallY == <<TLParen, TIdent("y"), TRParen>>

NoCall == <<>>

\* an argument list the directive ends before closing
CallUnclosed == <<TLParen, TIdent("y")>>

WellFormed(call) ==
    IF call = NoCall THEN TRUE ELSE Last(call).token_kind = "RParen"

\* the errors expand_identifier may return, with what it has read by then
expansion_errors(s, symbol, L) ==
    {[kind |-> "MacroNotFound", read |-> <<>>]}
    \cup {[kind |-> "Parse", read |-> call] :
              call \in {c \in L.calls :
                          /\ ~WellFormed(c)
                          /\ s.macro_store.map[symbol.text].params # None}}

Synthetic(b, at, delta) == Symbol(b.token_kind, b.text, TextRange(at, at), delta)

RECURSIVE SplitArgs(_, _)
\* the arguments between the parentheses, separated by top-level commas
SplitArgs(toks, current) ==
    IF toks = <<>> THEN <<current>>
    ELSE IF toks[1].token_kind = "Comma"
    THEN <<current>> \o SplitArgs(Tail(toks), <<>>)
    ELSE SplitArgs(Tail(toks), Append(current, toks[1]))

RECURSIVE Substitute(_, _, _)
\* "%d" in the body is replaced by the argument at position params[d]
Substitute(body, params, args) ==
    IF body = <<>> THEN <<>>
    ELSE IF /\ Len(body) >= 2
            /\ body[1].token_kind = "Percent"
            /\ body[2].token_kind = "IntegerLiteral"
            /\ to_int(body[2].text) < 10
            /\ params[to_int(body[2].text) + 1] # -1
            /\ params[to_int(body[2].text) + 1] + 1 <= Len(args)
    THEN args[params[to_int(body[2].text) + 1] + 1]
         \o Substitute(Tail(Tail(body)), params, args)
    ELSE <<body[1]>> \o Substitute(Tail(body), params, args)

Pushed(body, symbol) ==
    Reverse([i \in 1..Len(body) |->
                Synthetic(body[i], symbol.range.start,
                          IF i = 1 THEN symbol.delta ELSE body[i].delta)])

expand_identifier(s, symbol, call) ==
    LET macro_ == s.macro_store.map[symbol.text]
        disabled == [s EXCEPT !.macro_store = disable_macro(@, symbol.text)]
    IN  IF macro_.params = None
        THEN [r_paren_offset |-> None,
              s |-> [disabled EXCEPT
                        !.expansion_stack = @ \o Pushed(macro_.body, symbol)]]
        ELSE LET s1 == ConsumeAll(disabled, call)
                 args == SplitArgs(SubSeq(call, 2, Len(call) - 1), <<>>)
                 body == Substitute(macro_.body, Get(macro_.params), args)
             IN  [r_paren_offset |-> Some(s1.lexer.pos),
                  s |-> [s1 EXCEPT !.expansion_stack = @ \o Pushed(body, symbol)]]

\* the argument lists the expander may find: only a function-like macro asks
CallsFor(s, symbol, L) ==
    IF store_has(s.macro_store, symbol.text)
       /\ s.macro_store.map[symbol.text].params # None
    THEN L.calls ELSE {NoCall}

(***************************************************************************)
(* The Identifier arm of the Driver (lib.rs 225-290).                      *)
(***************************************************************************)
HandleSubstitution ==
    <<"m", "e", "t", "h", "o", "d", "m", "a", "p", " ", "H", "a", "n", "d", "l", "e", " ",
      "_", "_", "n", "u", "l", "l", "a", "b", "l", "e", "_", "_", " ", "{",
      "p", "u", "b", "l", "i", "c", " ", "n", "a", "t", "i", "v", "e", " ",
      "~", "H", "a", "n", "d", "l", "e", "(", ")", ";",
      "p", "u", "b", "l", "i", "c", " ", "n", "a", "t", "i", "v", "e", " ",
      "v", "o", "i", "d", " ", "C", "l", "o", "s", "e", "(", ")", ";", "}", ";">>

MapInc(m, k) ==
    [x \in (DOMAIN m) \cup {k} |->
        IF x = k THEN (IF k \in DOMAIN m THEN m[k] + 1 ELSE 1) ELSE m[x]]

MapGet(m, k, default) == IF k \in DOMAIN m THEN m[k] ELSE default

\* the observation of an identifier met in active text outside the intrinsics hook
Met(s, before, symbol, from_lexer, how) ==
    [s EXCEPT !.log.idents = @ \cup
        {[range |-> symbol.range, text |-> symbol.text, from_lexer |-> from_lexer,
          how |-> how, defined |-> store_has(before.macro_store, symbol.text),
          ever_defined |-> symbol.text \in before.log.ever_defined,
          last |-> MapGet(before.log.last_directive, symbol.text, "none")]}]

\* lib.rs 229-235
identifier_after_dot(s, symbol) ==
    [s EXCEPT !.buffer = IF symbol.text = <<"H", "a", "n", "d", "l", "e">>
                         THEN push_str(@, HandleSubstitution) ELSE @,
              !.intrinsics_parse_status = "Handle"]

\* lib.rs 241-245: skip the macro if it is disabled and reenable it
identifier_disabled(s, symbol) ==
    [s EXCEPT !.macro_store = enable_macro(@, symbol.text),
              !.buffer = push_symbol(@, symbol)]

\* lib.rs 254-274: the invocation's symbol, widened when arguments were consumed
expanded_range(symbol, r_paren_offset) ==
    IF r_paren_offset # None /\ symbol.range.start <= Get(r_paren_offset)
    THEN [symbol EXCEPT !.range = TextRange(symbol.range.start, Get(r_paren_offset))]
    ELSE symbol

\* lib.rs 246-276: the Ok arm of expand_identifier
identifier_expanded(s, symbol, call, from_lexer) ==
    LET e == expand_identifier(s, symbol, call)
        invoked == expanded_range(symbol, e.r_paren_offset)
        s1 == [e.s EXCEPT
                !.expanded_symbol = Some([symbol |-> invoked, macro |-> symbol.text,
                                          start_offset |-> s.buffer.offset]),
                !.log.site_count = MapInc(@, symbol.text)]
    IN  IF from_lexer
        THEN [s1 EXCEPT !.log.site =
                Some([range |-> TextRange(symbol.range.start, s1.lexer.pos),
                      start_offset |-> s.buffer.offset, macro |-> symbol.text])]
        ELSE s1

\* lib.rs 277-283: the Err arms of expand_identifier
identifier_not_expanded(s, symbol, err) ==
    LET s1 == ConsumeAll(s, err.read)
    IN  IF err.kind = "MacroNotFound"
        THEN error_result([s1 EXCEPT !.errors.macro_not_found_errors =
                                        Append(@, symbol.text)])
        ELSE error_result(s1)

\* lib.rs 286-288
identifier_plain(s, symbol) == [s EXCEPT !.buffer = push_symbol(@, symbol)]

(***************************************************************************)
(* The Intrinsics Micro-Parser arms of the Driver (lib.rs 291-311).        *)
(***************************************************************************)
\* lib.rs 291-295
using_arm(s) ==
    [s EXCEPT !.intrinsics_parse_status =
                  IF @ = "None" THEN "Using" ELSE "None"]

\* lib.rs 296-300
intrinsics_arm(s) ==
    [s EXCEPT !.intrinsics_parse_status =
                  IF @ = "Using" THEN "Intrinsics" ELSE "None"]

\* lib.rs 301-305
semicolon_arm(s, symbol) ==
    [s EXCEPT !.buffer = IF s.intrinsics_parse_status # "Handle"
                         THEN push_symbol(@, symbol) ELSE @,
              !.intrinsics_parse_status = "None"]

\* lib.rs 306-311
dot_arm(s, symbol) ==
    IF s.intrinsics_parse_status = "Intrinsics"
    THEN [s EXCEPT !.intrinsics_parse_status = "Dot"]
    ELSE [s EXCEPT !.buffer = push_symbol(@, symbol)]

(***************************************************************************)
(* The Driver loop of preprocess_input (lib.rs 194-324): one action is one *)
(* iteration, named after the arm of the dispatch that handles the symbol. *)
(* L is the language the lexer draws the input from.                       *)
(***************************************************************************)
Suppressed(d) == top_is_activated_or_not_activated(d.s.conditions_stack)

Running == status = "running"

\* lib.rs 212-217: the Skip handler
SkipHandler(L) ==
    /\ Running
    /\ \E d \in Draws(Self, L) :
        /\ Suppressed(d)
        /\ \E cond \in CondsFor(d.s, d.symbol, L) :
            Becomes(process_negative_condition(d.s, d.symbol, cond))

\* lib.rs 198-211, 323: the lexer has nothing more
LexerExhausted ==
    /\ Running
    /\ expansion_stack = <<>>
    /\ lexer.eof
    /\ Becomes(result(FlushExpanded(Self)))

\* lib.rs 219
UnknownToken(L) ==
    /\ Running
    /\ \E d \in Draws(Self, L) :
        /\ ~Suppressed(d)
        /\ d.symbol.token_kind = "Unknown"
        /\ Becomes(error_result(d.s))

\* lib.rs 430-514
DefineDirective(L) ==
    /\ Running
    /\ \E d \in Draws(Self, L) :
        /\ ~Suppressed(d)
        /\ d.symbol.token_kind = "MDefine"
        /\ \E tail \in L.defines :
            LET r == process_define(d.s, d.symbol, tail)
            IN  Becomes(IF r.ok THEN r.s ELSE error_result(r.s))

\* lib.rs 515-531
UndefDirective(L) ==
    /\ Running
    /\ \E d \in Draws(Self, L) :
        /\ ~Suppressed(d)
        /\ d.symbol.token_kind = "MUndef"
        /\ \E tail \in L.undefs : Becomes(process_undef(d.s, d.symbol, tail))

\* lib.rs 532
IfDirective(L) ==
    /\ Running
    /\ \E d \in Draws(Self, L) :
        /\ ~Suppressed(d)
        /\ d.symbol.token_kind = "MIf"
        /\ \E cond \in L.conds :
            Becomes(Opened(process_if_directive(d.s, d.symbol, cond)))

\* lib.rs 533
ElseifDirective(L) ==
    /\ Running
    /\ \E d \in Draws(Self, L) :
        /\ ~Suppressed(d)
        /\ d.symbol.token_kind = "MElseif"
        /\ LET r == process_elseif_directive(d.s, d.symbol, NoCond)
           IN  Becomes(IF r.ok THEN r.s ELSE error_result(r.s))

\* lib.rs 534
ElseDirective(L) ==
    /\ Running
    /\ \E d \in Draws(Self, L) :
        /\ ~Suppressed(d)
        /\ d.symbol.token_kind = "MElse"
        /\ LET r == process_else_directive(d.s, d.symbol)
           IN  Becomes(IF r.ok THEN r.s ELSE error_result(r.s))

\* lib.rs 535
EndifDirective(L) ==
    /\ Running
    /\ \E d \in Draws(Self, L) :
        /\ ~Suppressed(d)
        /\ d.symbol.token_kind = "MEndif"
        /\ Becomes(process_endif_directive(d.s, d.symbol))

\* lib.rs 229-235
IdentifierAfterDot(L) ==
    /\ Running
    /\ \E d \in Draws(Self, L) :
        /\ ~Suppressed(d)
        /\ d.symbol.token_kind = "Identifier"
        /\ d.s.intrinsics_parse_status = "Dot"
        /\ Becomes(identifier_after_dot(d.s, d.symbol))

\* lib.rs 241-245
IdentifierDisabled(L) ==
    /\ Running
    /\ \E d \in Draws(Self, L) :
        /\ ~Suppressed(d)
        /\ d.symbol.token_kind = "Identifier"
        /\ d.s.intrinsics_parse_status # "Dot"
        /\ store_has(d.s.macro_store, d.symbol.text)
        /\ is_macro_disabled(d.s.macro_store, d.symbol.text)
        /\ Becomes(Met(identifier_disabled(d.s, d.symbol), d.s, d.symbol,
                       d.from_lexer, "verbatim"))

\* lib.rs 246-276
IdentifierExpanded(L) ==
    /\ Running
    /\ \E d \in Draws(Self, L) :
        /\ ~Suppressed(d)
        /\ d.symbol.token_kind = "Identifier"
        /\ d.s.intrinsics_parse_status # "Dot"
        /\ store_has(d.s.macro_store, d.symbol.text)
        /\ ~is_macro_disabled(d.s.macro_store, d.symbol.text)
        /\ MapGet(d.s.log.site_count, d.symbol.text, 0) < MaxSiteExpansions
        /\ \E call \in CallsFor(d.s, d.symbol, L) :
            /\ WellFormed(call)
            /\ Becomes(Met(identifier_expanded(d.s, d.symbol, call, d.from_lexer),
                           d.s, d.symbol, d.from_lexer, "expanded"))

\* lib.rs 277-283
IdentifierExpansionFails(L) ==
    /\ Running
    /\ \E d \in Draws(Self, L) :
        /\ ~Suppressed(d)
        /\ d.symbol.token_kind = "Identifier"
        /\ d.s.intrinsics_parse_status # "Dot"
        /\ store_has(d.s.macro_store, d.symbol.text)
        /\ ~is_macro_disabled(d.s.macro_store, d.symbol.text)
        /\ \E err \in expansion_errors(d.s, d.symbol, L) :
            Becomes(identifier_not_expanded(d.s, d.symbol, err))

\* lib.rs 286-288
IdentifierPlain(L) ==
    /\ Running
    /\ \E d \in Draws(Self, L) :
        /\ ~Suppressed(d)
        /\ d.symbol.token_kind = "Identifier"
        /\ d.s.intrinsics_parse_status # "Dot"
        /\ ~store_has(d.s.macro_store, d.symbol.text)
        /\ Becomes(Met(identifier_plain(d.s, d.symbol), d.s, d.symbol,
                       d.from_lexer, "verbatim"))

\* lib.rs 195: the first statement of preprocess_input
IncludeSourcemod ==
    /\ status = "new"
    /\ \E r \in CallbackResults :
        Becomes([include_sourcemod(Self, r) EXCEPT !.status = "running"])

\* the results of the callbacks a directive makes: one per path form it holds
ResultsFor(m) == IF m = None THEN {[ok |-> TRUE, adds |-> <<>>]} ELSE CallbackResults

\* lib.rs 536
IncludeDirective(L) ==
    /\ Running
    /\ \E d \in Draws(Self, L) :
        /\ ~Suppressed(d)
        /\ d.symbol.token_kind = "MInclude"
        /\ \E r1 \in ResultsFor(RE_CHEVRON(d.symbol.text)),
              r2 \in ResultsFor(RE_QUOTE(d.symbol.text)) :
            Becomes(process_include_directive(d.s, d.symbol, FALSE, r1, r2))

\* lib.rs 537
TryincludeDirective(L) ==
    /\ Running
    /\ \E d \in Draws(Self, L) :
        /\ ~Suppressed(d)
        /\ d.symbol.token_kind = "MTryinclude"
        /\ \E r1 \in ResultsFor(RE_CHEVRON(d.symbol.text)),
              r2 \in ResultsFor(RE_QUOTE(d.symbol.text)) :
            Becomes(process_include_directive(d.s, d.symbol, TRUE, r1, r2))

\* lib.rs 291-295
UsingSymbol(L) ==
    /\ Running
    /\ \E d \in Draws(Self, L) :
        /\ ~Suppressed(d)
        /\ d.symbol.token_kind = "Using"
        /\ Becomes(using_arm(d.s))

\* lib.rs 296-300
IntrinsicsSymbol(L) ==
    /\ Running
    /\ \E d \in Draws(Self, L) :
        /\ ~Suppressed(d)
        /\ d.symbol.token_kind = "Intrinsics"
        /\ Becomes(intrinsics_arm(d.s))

\* lib.rs 301-305
SemicolonSymbol(L) ==
    /\ Running
    /\ \E d \in Draws(Self, L) :
        /\ ~Suppressed(d)
        /\ d.symbol.token_kind = "Semicolon"
        /\ Becomes(semicolon_arm(d.s, d.symbol))

\* lib.rs 306-311
DotSymbol(L) ==
    /\ Running
    /\ \E d \in Draws(Self, L) :
        /\ ~Suppressed(d)
        /\ d.symbol.token_kind = "Dot"
        /\ Becomes(dot_arm(d.s, d.symbol))

\* lib.rs 312-315
EofSymbol(L) ==
    /\ Running
    /\ \E d \in Draws(Self, L) :
        /\ ~Suppressed(d)
        /\ d.symbol.token_kind = "Eof"
        /\ Becomes(result([d.s EXCEPT !.buffer = push_symbol(@, d.symbol)]))

\* lib.rs 316-319
OtherSymbol(L) ==
    /\ Running
    /\ \E d \in Draws(Self, L) :
        /\ ~Suppressed(d)
        /\ d.symbol.token_kind \notin
              {"Unknown", "Identifier", "Using", "Intrinsics", "Semicolon", "Dot", "Eof"}
        /\ ~IsDirectiveKind(d.symbol.token_kind)
        /\ Becomes([d.s EXCEPT !.buffer = push_symbol(@, d.symbol)])

(***************************************************************************)
(* Specifications.                                                         *)
(***************************************************************************)
Init ==
    /\ lexer = New.lexer
    /\ input = New.input
    /\ macro_store = New.macro_store
    /\ expansion_stack = New.expansion_stack
    /\ errors = New.errors
    /\ conditions_stack = New.conditions_stack
    /\ condition_offsets_stack = New.condition_offsets_stack
    /\ buffer = New.buffer
    /\ intrinsics_parse_status = New.intrinsics_parse_status
    /\ expanded_symbol = New.expanded_symbol
    /\ status = New.status
    /\ inactive_ranges = New.inactive_ranges
    /\ log = New.log

\* inputs of conditional directives and identifiers
CondLang ==
    [toks |-> {TIdent("x"), TIf, TElseif, TElse, TEndif, TEof},
     max |-> MaxSyms, conds |-> {CondTrue, CondFalse},
     defines |-> {}, undefs |-> {}, calls |-> {}]

NextCond ==
    \/ SkipHandler(CondLang)
    \/ IfDirective(CondLang)
    \/ ElseifDirective(CondLang)
    \/ ElseDirective(CondLang)
    \/ EndifDirective(CondLang)
    \/ IdentifierPlain(CondLang)
    \/ EofSymbol(CondLang)
    \/ LexerExhausted

SpecCond == Init /\ [][NextCond]_vars

\* inputs of lines of text under conditional directives
LineLang ==
    [toks |-> {TIdent("x"), TNewline, TIf, TElse, TEndif, TEof},
     max |-> MaxLineSyms, conds |-> {CondTrue, CondFalse, CondError},
     defines |-> {}, undefs |-> {}, calls |-> {}]

NextLine ==
    \/ SkipHandler(LineLang)
    \/ IfDirective(LineLang)
    \/ ElseDirective(LineLang)
    \/ EndifDirective(LineLang)
    \/ IdentifierPlain(LineLang)
    \/ OtherSymbol(LineLang)
    \/ EofSymbol(LineLang)
    \/ LexerExhausted

SpecLine == Init /\ [][NextLine]_vars

\* inputs of #define, #undef and identifiers naming object-like macros
MacroLang ==
    [toks |-> {TDefine, TUndef, TIdent("F"), TIdent("G"), TEof},
     max |-> MaxMacroSyms, conds |-> {},
     defines |-> {DefineSelf, DefineSelfTwice, DefineFG, DefineGF, DefineGx, DefineGEof},
     undefs |-> {<<TIdentWs("F")>>, <<TIntWs("1"), TIdentWs("G")>>},
     calls |-> {}]

NextMacro ==
    \/ DefineDirective(MacroLang)
    \/ UndefDirective(MacroLang)
    \/ IdentifierDisabled(MacroLang)
    \/ IdentifierExpanded(MacroLang)
    \/ IdentifierPlain(MacroLang)
    \/ EofSymbol(MacroLang)
    \/ LexerExhausted

SpecMacro == Init /\ [][NextMacro]_vars

\* inputs of #define and invocations of macros that do not name themselves
ExpandLang ==
    [toks |-> {TDefine, TIdent("F"), TIdent("G"), TIdentWs("M"), TIdentWs("x"), TEof},
     max |-> MaxMacroSyms, conds |-> {},
     defines |-> {DefineFxG, DefineGx, DefineM},
     undefs |-> {},
     calls |-> {CallY}]

NextExpand ==
    \/ DefineDirective(ExpandLang)
    \/ IdentifierDisabled(ExpandLang)
    \/ IdentifierExpanded(ExpandLang)
    \/ IdentifierPlain(ExpandLang)
    \/ EofSymbol(ExpandLang)

SpecExpand == Init /\ [][NextExpand]_vars

\* inputs of #if and #elseif whose conditions may fail to evaluate
EvalLang ==
    [toks |-> {TIdent("x"), TIf, TElseif, TEndif, TEof},
     max |-> MaxEvalSyms, conds |-> {CondTrue, CondFalse, CondError},
     defines |-> {}, undefs |-> {}, calls |-> {}]

NextEval ==
    \/ SkipHandler(EvalLang)
    \/ IfDirective(EvalLang)
    \/ ElseifDirective(EvalLang)
    \/ EndifDirective(EvalLang)
    \/ IdentifierPlain(EvalLang)
    \/ EofSymbol(EvalLang)
    \/ LexerExhausted

SpecEval == Init /\ [][NextEval]_vars

(***************************************************************************)
(* The Output Buffer on its own: any sequence of its operations.           *)
(***************************************************************************)
\* symbols pushed: text with whitespace before it, with a line continuation
\* before it (negative delta), a symbol of an expansion (empty range), a
\* newline, and Eof symbols with and without whitespace before them
BufferSymbols ==
    {Symbol("Identifier", <<"x">>, TextRange(1, 2), 1),
     Symbol("Identifier", <<"x", "y">>, TextRange(2, 4), -2),
     Symbol("Identifier", <<"x">>, TextRange(0, 0), 0),
     Symbol("Newline", <<"\n">>, TextRange(0, 1), 0),
     Symbol("Eof", <<>>, TextRange(2, 2), 2),
     Symbol("Eof", <<>>, TextRange(0, 0), 0)}

BufferStrings == {<<>>, <<"a">>, <<"a", "\n">>}

BufferCounts == 0..2

Pushes(op, arg, b) ==
    /\ buffer' = b
    /\ log' = [log EXCEPT !.pushed = Some([op |-> op, arg |-> arg, before |-> buffer])]
    /\ UNCHANGED <<lexer, input, macro_store, expansion_stack, errors, conditions_stack,
                   condition_offsets_stack, intrinsics_parse_status, expanded_symbol,
                   status, inactive_ranges>>

PushWs ==
    /\ buffer.offset < MaxBufferLen
    /\ \E symbol \in BufferSymbols : Pushes("push_ws", symbol, push_ws(buffer, symbol))

PushNewLine ==
    /\ buffer.offset < MaxBufferLen
    /\ Pushes("push_new_line", 1, push_new_line(buffer))

PushNewLines ==
    /\ buffer.offset < MaxBufferLen
    /\ \E count \in BufferCounts :
        Pushes("push_new_lines", count, push_new_lines(buffer, count))

PushSymbol ==
    /\ buffer.offset < MaxBufferLen
    /\ \E symbol \in BufferSymbols :
        Pushes("push_symbol", symbol, push_symbol(buffer, symbol))

PushSymbolNoDelta ==
    /\ buffer.offset < MaxBufferLen
    /\ \E symbol \in BufferSymbols :
        Pushes("push_symbol_no_delta", symbol, push_symbol_no_delta(buffer, symbol))

PushStr ==
    /\ buffer.offset < MaxBufferLen
    /\ \E string \in BufferStrings : Pushes("push_str", string, push_str(buffer, string))

NextBuffer ==
    \/ PushWs
    \/ PushNewLine
    \/ PushNewLines
    \/ PushSymbol
    \/ PushSymbolNoDelta
    \/ PushStr

SpecBuffer == Init /\ [][NextBuffer]_vars

\* inputs with #define, #undef, #include, #tryinclude, Unknown tokens and the
\* name of a macro, in active and in suppressed text
SkipLang ==
    [toks |-> {TIf, TElse, TEndif, TDefine, TUndef, TIdent("G"), IncChevron, TryQuote,
               TUnknown, TEof},
     max |-> MaxSkipSyms, conds |-> {CondTrue, CondFalse},
     defines |-> {DefineGx, DefineGElse}, undefs |-> {<<TIdentWs("G")>>},
     calls |-> {}]

NextSkip ==
    \/ SkipHandler(SkipLang)
    \/ UnknownToken(SkipLang)
    \/ DefineDirective(SkipLang)
    \/ UndefDirective(SkipLang)
    \/ IfDirective(SkipLang)
    \/ ElseDirective(SkipLang)
    \/ EndifDirective(SkipLang)
    \/ IncludeDirective(SkipLang)
    \/ TryincludeDirective(SkipLang)
    \/ IdentifierExpanded(SkipLang)
    \/ IdentifierPlain(SkipLang)
    \/ EofSymbol(SkipLang)
    \/ LexerExhausted

SpecSkip == Init /\ [][NextSkip]_vars

\* the symbols a #define line is made of: a name, parentheses with and without
\* whitespace before them, parameters in and out of range, with and without
\* whitespace before them, commas, percent signs and an identifier
DefineAlphabet ==
    {TIdentWs("S"), TLParen, Tok("LParen", <<"(">>, 1), TPercent, TInt("1"), TIntWs("2"),
     Tok("IntegerLiteral", <<"1", "0">>, 0), TComma, TRParen, TIdent("y")}

DefineTails == UNION {[1..n -> DefineAlphabet] : n \in 1..MaxDefineLen}

\* one #define line of any shape, in a run whose host may have defined its name
DefineLang ==
    [toks |-> {TDefine, TEof}, max |-> 1, conds |-> {}, defines |-> DefineTails,
     undefs |-> {}, calls |-> {}]

NextDefine ==
    \/ IncludeSourcemod
    \/ DefineDirective(DefineLang)
    \/ EofSymbol(DefineLang)

\* preprocess_input from its first statement
InitInclude ==
    /\ lexer = New.lexer
    /\ input = New.input
    /\ macro_store = New.macro_store
    /\ expansion_stack = New.expansion_stack
    /\ errors = New.errors
    /\ conditions_stack = New.conditions_stack
    /\ condition_offsets_stack = New.condition_offsets_stack
    /\ buffer = New.buffer
    /\ intrinsics_parse_status = New.intrinsics_parse_status
    /\ expanded_symbol = New.expanded_symbol
    /\ status = "new"
    /\ inactive_ranges = New.inactive_ranges
    /\ log = New.log

\* inputs with #include and #tryinclude lines, in active and suppressed text
IncludeLang ==
    [toks |-> {IncChevron, IncBoth, IncNoPath, TryQuote, TIdentWs("S"), TIf, TEndif,
               TEof},
     max |-> MaxIncludeSyms, conds |-> {CondTrue, CondError},
     defines |-> {}, undefs |-> {}, calls |-> {}]

NextInclude ==
    \/ IncludeSourcemod
    \/ SkipHandler(IncludeLang)
    \/ IfDirective(IncludeLang)
    \/ EndifDirective(IncludeLang)
    \/ IncludeDirective(IncludeLang)
    \/ TryincludeDirective(IncludeLang)
    \/ IdentifierDisabled(IncludeLang)
    \/ IdentifierExpanded(IncludeLang)
    \/ IdentifierPlain(IncludeLang)
    \/ EofSymbol(IncludeLang)
    \/ LexerExhausted

SpecInclude == InitInclude /\ [][NextInclude]_vars

SpecDefine == InitInclude /\ [][NextDefine]_vars

\* inputs on which preprocess_input aborts
AbortLang ==
    [toks |-> {TIdentWs("x"), TIdentWs("M"), TUnknown, TIf, TElseif, TElse, TEndif,
               TDefine, TEof},
     max |-> MaxAbortSyms, conds |-> {CondFalse},
     defines |-> {DefineM, DefineBadParam, DefineBadIndex},
     undefs |-> {}, calls |-> {CallY, CallUnclosed}]

NextAbort ==
    \/ SkipHandler(AbortLang)
    \/ UnknownToken(AbortLang)
    \/ DefineDirective(AbortLang)
    \/ IfDirective(AbortLang)
    \/ ElseifDirective(AbortLang)
    \/ ElseDirective(AbortLang)
    \/ EndifDirective(AbortLang)
    \/ IdentifierDisabled(AbortLang)
    \/ IdentifierExpanded(AbortLang)
    \/ IdentifierExpansionFails(AbortLang)
    \/ IdentifierPlain(AbortLang)
    \/ EofSymbol(AbortLang)
    \/ LexerExhausted

SpecAbort == Init /\ [][NextAbort]_vars

\* inputs without directives and without macros
PlainLang ==
    [toks |-> {TIdentWs("x"), THandle, TUsing, TIntrinsics, TDot, TSemicolon,
               TNewline, TEof},
     max |-> MaxPlainSyms, conds |-> {}, defines |-> {}, undefs |-> {}, calls |-> {}]

NextPlain ==
    \/ IdentifierAfterDot(PlainLang)
    \/ IdentifierPlain(PlainLang)
    \/ UsingSymbol(PlainLang)
    \/ IntrinsicsSymbol(PlainLang)
    \/ SemicolonSymbol(PlainLang)
    \/ DotSymbol(PlainLang)
    \/ OtherSymbol(PlainLang)
    \/ EofSymbol(PlainLang)

SpecPlain == Init /\ [][NextPlain]_vars

\* get_inactive_ranges on every list of recorded skipped ranges
RangesUpTo == {r \in [start : 0..MaxPos, end : 0..MaxPos] : r.start < r.end}

RangeLists == UNION {[1..n -> RangesUpTo] : n \in 0..MaxRanges}

InitCoalesce ==
    /\ lexer = New.lexer
    /\ input = New.input
    /\ macro_store = New.macro_store
    /\ expansion_stack = New.expansion_stack
    /\ errors = New.errors
    /\ conditions_stack = New.conditions_stack
    /\ condition_offsets_stack \in [stack : {<<>>}, skipped_ranges : RangeLists]
    /\ buffer = New.buffer
    /\ intrinsics_parse_status = New.intrinsics_parse_status
    /\ expanded_symbol = New.expanded_symbol
    /\ status = New.status
    /\ inactive_ranges = New.inactive_ranges
    /\ log = New.log

\* lib.rs 88-100: result() on the recorded skipped ranges
Report ==
    /\ Running
    /\ Becomes(result(Self))

SpecCoalesce == InitCoalesce /\ [][Report]_vars

(***************************************************************************)
(* Properties.                                                             *)
(***************************************************************************)
Finished_ == status # "running"

\* the offsets a list of ranges covers
Covered(ranges) ==
    {o \in 0..MaxPos : \E i \in DOMAIN ranges :
        ranges[i].start <= o /\ o < ranges[i].end}

\* C1: line count preservation. When preprocess_input completes on an input
\* whose #if directives are all closed, the output holds one "\n" byte more
\* than the input (the synthetic EOF newline), suppressed branches included.
C1_LineCountPreserved ==
    (status = "ok" /\ conditions_stack = <<>>)
        => linebreak_count(buffer.contents) = linebreak_count(input) + 1

\* C2: inactive_ranges reports only elided text. No symbol that was emitted
\* to the output (an entry of the source map) has its original range inside a
\* range of the final inactive_ranges.
C2_OnlyElidedReported ==
    Finished_ =>
        \A i \in DOMAIN buffer.source_map.ranges :
            \A j \in DOMAIN inactive_ranges :
                ~Inside(buffer.source_map.ranges[i].original, inactive_ranges[j])

\* C3: inactive_ranges reports everything that was elided. When
\* preprocess_input completes with every #if closed, every symbol the Skip
\* handler suppressed lies inside a range of inactive_ranges.
C3_AllElidedReported ==
    (status = "ok" /\ conditions_stack = <<>>) =>
        \A r \in log.suppressed :
            \E j \in DOMAIN inactive_ranges : Inside(r, inactive_ranges[j])

\* C4: inactive-range coalescing. The report is sorted by start offset, no
\* two of its entries overlap or touch, and it covers exactly the offsets the
\* recorded skipped ranges cover (an empty list gives an empty report).
C4_Coalesced ==
    Finished_ =>
        /\ \A i \in 1..(Len(inactive_ranges) - 1) :
              inactive_ranges[i].end < inactive_ranges[i + 1].start
        /\ \A i \in DOMAIN inactive_ranges :
              inactive_ranges[i].start < inactive_ranges[i].end
        /\ Covered(inactive_ranges) = Covered(log.recorded)
        /\ (log.recorded = <<>> => inactive_ranges = <<>>)

\* a report that needed both the sort and a merge, and kept two ranges apart
C4_Witness ==
    /\ status = "ok"
    /\ Len(log.recorded) = 3
    /\ log.recorded[1].start > log.recorded[2].start
    /\ Len(inactive_ranges) = 2
    /\ \E i, j \in DOMAIN log.recorded : log.recorded[i].end = log.recorded[j].start

SelfReferential(name) ==
    /\ store_has(macro_store, name)
    /\ \E i \in DOMAIN macro_store.map[name].body :
          macro_store.map[name].body[i].text = name

\* C5: self-disabling termination. A macro whose body contains its own name
\* expands exactly once at a given invocation site: between two symbols drawn
\* from the lexer it is never expanded a second time.
C5_SelfExpandsOnce ==
    \A name \in DOMAIN log.site_count :
        SelfReferential(name) => log.site_count[name] <= 1

\* C6: re-enabling after the site. Once the Expansion Stack has drained no
\* macro is left disabled, and an identifier drawn from the lexer in active
\* text that names a defined macro is expanded, not emitted verbatim.
C6_ReenabledAfterSite ==
    /\ expansion_stack = <<>> => macro_store.disabled = {}
    /\ \A e \in log.idents : (e.from_lexer /\ e.defined) => e.how = "expanded"

\* C7: expansion source mapping. The expansion entries of the source map are
\* exactly one entry per macro invocation drawn from the lexer, recorded when
\* the next lexer symbol is drawn: the invocation's range (from the
\* identifier's start to its end, or to the right parenthesis), the output
\* offset when the invocation began, and the output offset after all its text.
C7_ExpansionEntries ==
    buffer.source_map.expanded = log.expected

\* C8: at most one branch per conditional chain is emitted. No chain has had
\* two Active branches, and a chain that has had its Active branch and is no
\* longer in it is Activated.
C8_AtMostOneBranch ==
    \A i \in DOMAIN log.chain :
        /\ log.chain[i].active <= 1
        /\ (log.chain[i].active = 1 /\ conditions_stack[i] # "Active")
              => conditions_stack[i] = "Activated"

\* a chain whose first branch was Active, now past its third directive
C8_Witness ==
    /\ conditions_stack # <<>>
    /\ log.chain[1].active = 1
    /\ log.chain[1].branches >= 3
    /\ conditions_stack[1] = "Activated"

\* C9: nested conditionals under a suppressed branch stay suppressed. If the
\* top of the Condition Stack is Active then every entry below it is Active,
\* and no branch of a chain opened under a suppressed branch has been Active.
C9_NestedStaySuppressed ==
    /\ (conditions_stack # <<>> /\ Last(conditions_stack) = "Active")
          => \A i \in DOMAIN conditions_stack : conditions_stack[i] = "Active"
    /\ \A i \in DOMAIN log.chain : log.chain[i].under => log.chain[i].active = 0

\* a nested chain under a suppressed branch that has met an #else or #elseif
C9_Witness ==
    /\ Len(conditions_stack) >= 2
    /\ log.chain[2].under
    /\ log.chain[2].branches >= 2

\* C10: undef. A name whose last active directive is #undef has no entry in
\* the Macro Store (so none in the final macros_map), and every identifier of
\* that name met in active text since was emitted verbatim.
C10_Undef ==
    /\ \A name \in DOMAIN log.last_directive :
          log.last_directive[name] = "undef" => ~store_has(macro_store, name)
    /\ \A e \in log.idents : e.last = "undef" => e.how = "verbatim"

\* an identifier met after its #define and then its #undef, the run completed
C10_Witness ==
    /\ status = "ok"
    /\ \E e \in log.idents : e.last = "undef" /\ e.ever_defined /\ e.from_lexer

\* the symbols drawn last, oldest first
LastDrawn(n) ==
    IF Len(log.trail) < n THEN <<>>
    ELSE SubSeq(log.trail, Len(log.trail) - n + 1, Len(log.trail))

\* the handler of the symbol drawn last has run
Stepped == log.step # None

Before == Get(log.step).before

\* C11: round trip for directive-free input. When the input holds no
\* directive and no macro name, the output is the text of the symbols drawn so
\* far, each after its whitespace, followed by one newline once Eof is drawn,
\* and every emitted symbol is mapped to its own original offset.
C11_RoundTrip ==
    /\ status = "running" => buffer.contents = input
    /\ status = "ok" => buffer.contents = Append(input, "\n")
    /\ \A i \in DOMAIN buffer.source_map.ranges :
          buffer.source_map.ranges[i].original = buffer.source_map.ranges[i].output

KindsOf(trail) == [i \in DOMAIN trail |-> trail[i].token_kind]

\* the handler of the symbol drawn last pushed the methodmap Handle text
Substituted ==
    /\ Stepped
    /\ buffer.contents = Before.buffer.contents \o HandleSubstitution

\* the handler of the semicolon drawn last emitted nothing
Swallowed ==
    /\ Stepped
    /\ Get(log.step).symbol.token_kind = "Semicolon"
    /\ buffer = Before.buffer

\* C17: intrinsics substitution only on the exact sequence. The methodmap
\* Handle text is pushed only when the four symbols drawn last are Using,
\* Intrinsics, Dot and the identifier Handle, and a semicolon is swallowed only
\* when it follows these four directly.
C17_ExactSequenceOnly ==
    /\ Substituted =>
          /\ KindsOf(LastDrawn(4)) = <<"Using", "Intrinsics", "Dot", "Identifier">>
          /\ LastDrawn(1)[1].text = THandle.text
    /\ Swallowed =>
          /\ KindsOf(LastDrawn(5)) =
                <<"Using", "Intrinsics", "Dot", "Identifier", "Semicolon">>
          /\ LastDrawn(2)[1].text = THandle.text

IsPrefix(p, q) ==
    Len(p) <= Len(q) /\ SubSeq(q, 1, Len(p)) = p

\* C12: abort keeps the partial result. Once preprocess_input has aborted no
\* step follows; the result holds the text emitted up to the failure (nothing
\* more than before the failing symbol for an Unknown token, a failed expansion
\* and a stray #else or #elseif), the errors recorded so far (one more
\* macro_not_found error at most) and the skipped ranges recorded so far,
\* coalesced as result() coalesces them.
C12_AbortKeepsPartial ==
    /\ [](status = "error" =>
            /\ Stepped
            /\ IsPrefix(Before.buffer.contents, buffer.contents)
            /\ Get(log.step).symbol.token_kind # "MDefine" => buffer = Before.buffer
            /\ buffer.offset = Len(buffer.contents)
            /\ errors.evaluation_errors = Before.errors.evaluation_errors
            /\ errors.unresolved_include_errors = Before.errors.unresolved_include_errors
            /\ IsPrefix(Before.errors.macro_not_found_errors,
                        errors.macro_not_found_errors)
            /\ Len(errors.macro_not_found_errors)
                  <= Len(Before.errors.macro_not_found_errors) + 1
            /\ log.recorded = Before.condition_offsets_stack.skipped_ranges
            /\ inactive_ranges = get_inactive_ranges(log.recorded))
    /\ [][status # "error"]_vars

\* an abort after a skipped range has been recorded
C12_Witness ==
    /\ status = "error"
    /\ inactive_ranges # <<>>
    /\ buffer.contents # <<>>

\* the symbol drawn last was met in active text with the Condition Stack empty
StrayDirective(kind) ==
    /\ Stepped
    /\ Get(log.step).symbol.token_kind = kind
    /\ Before.conditions_stack = <<>>

\* C13: directive structure errors. An #else or #elseif met while the
\* Condition Stack is empty aborts with an error result; an #endif met while it
\* is empty leaves the Condition Stack, the offset stack, the skipped ranges,
\* the errors and the output as they were, and preprocessing goes on.
C13_StrayDirectives ==
    /\ (StrayDirective("MElse") \/ StrayDirective("MElseif")) => status = "error"
    /\ StrayDirective("MEndif") =>
          /\ status = "running"
          /\ conditions_stack = <<>>
          /\ condition_offsets_stack = Before.condition_offsets_stack
          /\ errors = Before.errors
          /\ buffer = Before.buffer

\* a stray #endif met after text has been emitted, with a start offset pending
C13_Witness ==
    /\ StrayDirective("MEndif")
    /\ status = "running"
    /\ buffer.contents # <<>>
    /\ condition_offsets_stack.stack # <<>>

\* the include callback's invocations made for the symbol drawn last, in order
CallsOfStep ==
    SelectSeq(log.calls, LAMBDA c : c.drawn = Len(log.trail))

FailedCallsOfStep == SelectSeq(CallsOfStep, LAMBDA c : ~c.ok)

\* the symbol drawn last is a directive of this kind met in active text
ActiveDirective(kind) ==
    /\ Stepped
    /\ Get(log.step).symbol.token_kind = kind
    /\ ~top_is_activated_or_not_activated(Before.conditions_stack)

EndsWith(q, p) ==
    Len(p) <= Len(q) /\ SubSeq(q, Len(q) - Len(p) + 1, Len(q)) = p

C15_SourcemodFirst ==
    /\ status = "new" =>
          /\ log.calls = <<>>
          /\ log.trail = <<>>
          /\ lexer.pos = 0
          /\ buffer.contents = <<>>
    /\ status # "new" =>
          /\ log.calls # <<>>
          /\ Head(log.calls).path = <<"s", "o", "u", "r", "c", "e", "m", "o", "d">>
          /\ ~Head(log.calls).is_quoted
          /\ Head(log.calls).drawn = 0
          /\ Head(log.calls).pos = 0
          /\ Head(log.calls).offset = 0
          /\ log.trail = <<>> => (errors = New.errors /\ status # "error")
          /\ Len(errors.unresolved_include_errors) <= Len(log.calls) - 1

\* the pre-load failed and the run went on to emit text
C15_Witness ==
    /\ status = "running"
    /\ log.calls # <<>>
    /\ ~Head(log.calls).ok
    /\ log.trail # <<>>
    /\ buffer.contents # <<>>
    /\ errors = New.errors

\* the symbol drawn last was a directive whose condition was evaluated to this
EvaluatedTo(value) ==
    /\ Stepped
    /\ log.evaluated # None
    /\ Get(log.evaluated).drawn = Len(log.trail)
    /\ Get(log.evaluated).value = value

\* C16: evaluation failure defaults to false. A condition is evaluated only
\* for an #if in active text and for an #elseif reached with NotActivated on
\* top; when it fails to evaluate exactly one evaluation error is appended,
\* NotActivated is pushed (in place of the popped entry for #elseif) so the
\* branch is suppressed, nothing is emitted and the run is not aborted.
\* No other step changes evaluation_errors.
C16_EvaluationFailure ==
    /\ ~Stepped => errors.evaluation_errors = <<>>
    /\ Stepped =>
          LET symbol == Get(log.step).symbol
              base == IF symbol.token_kind = "MIf" THEN Before.conditions_stack
                      ELSE Front(Before.conditions_stack)
          IN  IF EvaluatedTo("error")
              THEN /\ \/ ActiveDirective("MIf")
                      \/ /\ symbol.token_kind = "MElseif"
                         /\ Before.conditions_stack # <<>>
                         /\ Last(Before.conditions_stack) = "NotActivated"
                   /\ Len(errors.evaluation_errors) =
                         Len(Before.errors.evaluation_errors) + 1
                   /\ IsPrefix(Before.errors.evaluation_errors, errors.evaluation_errors)
                   /\ conditions_stack = Append(base, "NotActivated")
                   /\ top_is_activated_or_not_activated(conditions_stack)
                   /\ errors.unresolved_include_errors =
                         Before.errors.unresolved_include_errors
                   /\ buffer.contents = Before.buffer.contents
                   /\ status = "running"
              ELSE errors.evaluation_errors = Before.errors.evaluation_errors

\* an #if and then its #elseif, both with a condition that failed to evaluate
C16_Witness ==
    /\ EvaluatedTo("error")
    /\ Get(log.step).symbol.token_kind = "MElseif"
    /\ Len(errors.evaluation_errors) = 2
    /\ status = "running"

\* C18: Condition Stack depth. The depth of the Condition Stack equals the
\* number of #if directives drawn minus the number of #endif directives drawn,
\* counted never below zero, in active and in suppressed text alike; a step
\* that draws an #elseif or an #else leaves the depth as it was.
C18_StackDepth ==
    /\ Len(conditions_stack) = log.open
    /\ (Stepped /\ Get(log.step).symbol.token_kind \in {"MElseif", "MElse"})
          => Len(conditions_stack) = Len(Before.conditions_stack)

\* an #endif met in suppressed text that closed the innermost of three levels
C18_Witness ==
    /\ Stepped
    /\ Get(log.step).symbol.token_kind = "MEndif"
    /\ Len(Before.conditions_stack) = 3
    /\ Len(conditions_stack) = 2
    /\ conditions_stack[1] = "NotActivated"
    /\ log.open = 2

\* C19: parallel stacks. The Condition-Offset Stack holds one pending start
\* offset per entry of the Condition Stack: the two stacks have equal depth.
C19_ParallelStacks ==
    Len(condition_offsets_stack.stack) = Len(conditions_stack)

\* C20: Output Buffer length invariant. After any sequence of push_ws,
\* push_new_line, push_new_lines, push_symbol, push_symbol_no_delta and
\* push_str the length of contents equals offset; push_symbol of an Eof symbol
\* appends one newline to contents, advances offset by one and changes nothing
\* else, whatever the symbol's delta and range.
C20_BufferLength ==
    /\ Len(buffer.contents) = buffer.offset
    /\ (/\ log.pushed # None
        /\ Get(log.pushed).op = "push_symbol"
        /\ Get(log.pushed).arg.token_kind = "Eof")
          => buffer = [Get(log.pushed).before EXCEPT !.contents = Append(@, "\n"),
                                                     !.offset = @ + 1]

\* an Eof symbol with whitespace before it pushed after a symbol of a line
\* continuation
C20_Witness ==
    /\ log.pushed # None
    /\ Get(log.pushed).op = "push_symbol"
    /\ Get(log.pushed).arg.token_kind = "Eof"
    /\ Get(log.pushed).arg.delta = 2
    /\ Len(Get(log.pushed).before.contents) >= 2
    /\ Get(log.pushed).before.source_map.ranges # <<>>
    /\ buffer.offset = Len(Get(log.pushed).before.contents) + 1

\* the operation applied last to the Output Buffer emitted a symbol's text
EmittedSymbol ==
    /\ log.pushed # None
    /\ \/ Get(log.pushed).op = "push_symbol_no_delta"
       \/ /\ Get(log.pushed).op = "push_symbol"
          /\ Get(log.pushed).arg.token_kind # "Eof"

\* C21: source-map entries. An operation of the Output Buffer records a
\* source-map pair if and only if it emits a symbol whose original range is
\* not empty (push_ws, push_new_line, push_new_lines, push_str, the newline of
\* an Eof symbol and symbols of empty range record nothing); the pair holds the
\* symbol's range and, as output start, the offset at which the symbol's text
\* begins in contents, after its whitespace; the output starts of the recorded
\* pairs are non-decreasing in recording order.
C21_SourceMapEntries ==
    /\ log.pushed = None => buffer.source_map.ranges = <<>>
    /\ log.pushed # None =>
          LET before == Get(log.pushed).before.source_map.ranges
              after == buffer.source_map.ranges
              symbol == Get(log.pushed).arg
          IN  IF EmittedSymbol
              THEN IF RangeIsEmpty(symbol.range) THEN after = before
                   ELSE /\ Len(after) = Len(before) + 1
                        /\ IsPrefix(before, after)
                        /\ Last(after).original = symbol.range
                        /\ Last(after).output.start =
                              Len(buffer.contents) - Len(symbol.text)
                        /\ EndsWith(buffer.contents, symbol.text)
              ELSE after = before
    /\ \A i, j \in DOMAIN buffer.source_map.ranges :
          i <= j => buffer.source_map.ranges[i].output.start
                        <= buffer.source_map.ranges[j].output.start

\* a second pair, recorded for a symbol pushed with whitespace before it
C21_Witness ==
    /\ EmittedSymbol
    /\ Get(log.pushed).op = "push_symbol"
    /\ Get(log.pushed).arg.delta # 0
    /\ Len(buffer.source_map.ranges) >= 2
    /\ Last(buffer.source_map.ranges).output.start
          > Get(log.pushed).before.offset

\* the handler of the symbol drawn last emitted it: its whitespace, then its text
EmittedVerbatim ==
    /\ Stepped
    /\ buffer.contents = Before.buffer.contents \o SourceOf(Get(log.step).symbol)

\* the symbol drawn last is of this kind and the symbols drawn right before it
\* are not of these kinds
OutsidePattern(kind, preceding) ==
    /\ Stepped
    /\ Get(log.step).symbol.token_kind = kind
    /\ KindsOf(LastDrawn(Len(preceding) + 1)) # Append(preceding, kind)

\* C22: intrinsics-kind symbols outside the pattern are emitted. In input
\* without directives, an Intrinsics symbol not preceded by Using, a Dot not
\* preceded by Using and Intrinsics, and a Semicolon not preceded by Using,
\* Intrinsics, Dot and an identifier are emitted verbatim, and so is a Using
\* symbol once the symbol after it turns out not to be Intrinsics.
C22_OutsidePatternEmitted ==
    /\ OutsidePattern("Intrinsics", <<"Using">>) => EmittedVerbatim
    /\ OutsidePattern("Dot", <<"Using", "Intrinsics">>) => EmittedVerbatim
    /\ OutsidePattern("Semicolon", <<"Using", "Intrinsics", "Dot", "Identifier">>)
          => EmittedVerbatim
    /\ (/\ Len(log.trail) >= 2
        /\ LastDrawn(2)[1].token_kind = "Using"
        /\ LastDrawn(2)[2].token_kind \in {"Identifier", "Newline"})
          => EndsWith(buffer.contents,
                      SourceOf(TUsing) \o SourceOf(Get(log.step).symbol))

\* the symbol drawn last was met in suppressed text and is no #if, #elseif,
\* #else or #endif
SkippedSymbol ==
    /\ Stepped
    /\ top_is_activated_or_not_activated(Before.conditions_stack)
    /\ Get(log.step).symbol.token_kind \notin {"MIf", "MElseif", "MElse", "MEndif"}

\* C23: suppressed text has no effect. A symbol other than #if, #elseif, #else
\* and #endif drawn while the top of the Condition Stack is NotActivated or
\* Activated leaves the Macro Store with its disabled set, the error lists and
\* the Output Buffer with its source map as the Skip handler found them, leaves
\* both condition stacks as they were, makes no invocation of the include
\* callback and does not abort. (The entry of a completed macro expansion is
\* recorded when the symbol is drawn, ahead of the handler: lib.rs 201-208.)
C23_SuppressedNoEffect ==
    SkippedSymbol =>
        /\ macro_store = Before.macro_store
        /\ errors = Before.errors
        /\ buffer = Before.buffer
        /\ conditions_stack = Before.conditions_stack
        /\ condition_offsets_stack.stack = Before.condition_offsets_stack.stack
        /\ CallsOfStep = <<>>
        /\ status # "error"

\* the name of a defined macro met under #if 0, and below it in the same
\* suppressed text an #include
C23_Witness ==
    /\ SkippedSymbol
    /\ Get(log.step).symbol.token_kind = "MInclude"
    /\ KindsOf(LastDrawn(2)) = <<"Identifier", "MInclude">>
    /\ store_has(macro_store, LastDrawn(2)[1].text)
    /\ status = "running"

\* the #define line scanned by the step taken last
DefineStep ==
    /\ ActiveDirective("MDefine")
    /\ log.scanned # None
    /\ Get(log.scanned).drawn = Len(log.trail)

\* the name of the line: its first symbol when that is an identifier
NameOf(tail) == IF tail[1].token_kind = "Identifier" THEN tail[1].text ELSE <<>>

\* the symbol right after the macro name is an LParen with zero delta
ListEntered(tail) ==
    /\ Len(tail) >= 2
    /\ tail[1].token_kind = "Identifier"
    /\ tail[2].token_kind = "LParen"
    /\ tail[2].delta = 0

RECURSIVE ListOf(_, _, _, _)
\* the parameter list as stated: the params it sets, whether a parameter was
\* seen, and whether a symbol aborts it
ListOf(rest, commas, params, seen) ==
    IF rest = <<>> \/ rest[1].delta > 0 \/ rest[1].token_kind = "RParen"
    THEN [params |-> params, seen |-> seen, aborts |-> FALSE]
    ELSE CASE rest[1].token_kind = "IntegerLiteral" ->
                IF to_int(rest[1].text) >= 10
                THEN [params |-> params, seen |-> TRUE, aborts |-> TRUE]
                ELSE ListOf(Tail(rest), commas,
                            [params EXCEPT ![to_int(rest[1].text) + 1] = commas], TRUE)
           [] rest[1].token_kind = "Comma" -> ListOf(Tail(rest), commas + 1, params, seen)
           [] rest[1].token_kind = "Percent" -> ListOf(Tail(rest), commas, params, seen)
           [] OTHER -> [params |-> params, seen |-> seen, aborts |-> TRUE]

StatedList(tail) ==
    IF ListEntered(tail)
    THEN ListOf(SubSeq(tail, 3, Len(tail)), 0, [i \in 1..10 |-> -1], FALSE)
    ELSE [params |-> [i \in 1..10 |-> -1], seen |-> FALSE, aborts |-> FALSE]

\* C24: the #define scanner. The parameter list is entered only when the
\* symbol right after the macro name is an LParen with zero delta; inside it an
\* integer literal k below 10 sets params[k] to the number of commas seen so
\* far and a symbol with positive delta escapes to the body; the macro stored
\* is function-like exactly when an integer literal was seen in the list, with
\* nb_params the number of entries of params other than -1. An integer literal
\* of 10 or more, or another symbol than an integer, Comma, Percent or RParen
\* in the list, aborts and leaves the Macro Store as it was.
C24_DefineScanner ==
    DefineStep =>
        LET tail == Get(log.scanned).tail
            list == StatedList(tail)
        IN  IF list.aborts
            THEN status = "error" /\ macro_store = Before.macro_store
            ELSE /\ status = "running"
                 /\ store_has(macro_store, NameOf(tail))
                 /\ LET macro_ == macro_store.map[NameOf(tail)]
                    IN  /\ macro_.params = IF list.seen THEN Some(list.params) ELSE None
                        /\ list.seen =>
                              macro_.nb_params =
                                  Cardinality({i \in 1..10 : list.params[i] # -1})

====
